---- MODULE Spec2Model ----
(***************************************************************************)
(* Employee-supervision dashboard: the pydantic validation models          *)
(* (models.py), the Supabase access layer (supabase_client.py) and the     *)
(* Streamlit handlers (app.py) as one state machine.                       *)
(*                                                                         *)
(* Python None is the empty sequence <<>> and a present value v is <<v>>   *)
(* for optional fields and for the optional client; for strings that may   *)
(* be None the reserved string NoneStr stands for None.                    *)
(***************************************************************************)
EXTENDS Integers, Sequences, FiniteSets, TLC

VARIABLES
    supabase,      \* the module global _supabase: <<>> or <<[user, token]>>
    authUsers,     \* e-mails registered in the backend's auth service
    employees,     \* rows of table "employees"
    observations,  \* rows of table "observations"
    now,           \* the current instant (UTC), shared by client and backend
    nextId,        \* next primary key the backend hands out
    st,            \* st.session_state of every UI session
    last           \* the last call: operation, arguments, outcome, pre-state

vars == <<supabase, authUsers, employees, observations, now, nextId, st, last>>

(***************************************************************************)
(* Bounds of the model.                                                    *)
(***************************************************************************)
MaxCpfLen == 12    \* longest CPF text enumerated exhaustively
MaxClock == 1      \* instants 0..MaxClock
MaxObs == 1        \* observation rows the backend may hold
MaxEmployees == 3  \* employee rows the backend may hold

(***************************************************************************)
(* Values.                                                                 *)
(***************************************************************************)
None == <<>>
Some(v) == <<v>>
NoneStr == "<None>"

\* "123.456.789-09" and "12345678909"
CpfPunctuated == <<"1","2","3",".","4","5","6",".","7","8","9","-","0","9">>
CpfPlain == <<"1","2","3","4","5","6","7","8","9","0","9">>
CpfOther == <<"9","8","7","6","5","4","3","2","1","0","0">>
CpfShort == <<"1","2","3","4","5","6","7","8","9","0">>
CpfElevenChars == <<"1","2","3",".","4","5","6","7","8","9","0">>

\* every text over {"1", "."} of at most MaxCpfLen characters, and the examples
AllCpfInputs ==
    UNION {[1..n -> {"1", "."}] : n \in 0..MaxCpfLen}
      \cup {CpfPunctuated, CpfPlain, CpfOther, CpfShort, CpfElevenChars}

\* the CPF texts the handlers are driven with
CpfInputs == {CpfPunctuated, CpfPlain, CpfShort}

NameInputs == {"", "Ana"}

ADMIN_EMAILS == {"monitoramento.conae@gmail.com"}

JOB_ROLES == <<"Auxiliar de Limpeza", "Agente de Higienizacao", "Limpador de Vidros",
               "Lider", "Encarregado">>

StatusType == {"Trabalhando", "Abandono"}

ObservationType == {"COLABORADOR", "ESCOLA"}

SchoolIds == {1, 2}

(***************************************************************************)
(* models.py: the validation models.                                       *)
(***************************************************************************)
NameMinLength == 1
NameMaxLength == 200
CpfMinLength == 11
CpfMaxLength == 11
CpfDigits == 11

IsDigit(ch) == ch \in {"0", "1", "2", "3", "4", "5", "6", "7", "8", "9"}

\* "".join(ch for ch in v if ch.isdigit())
DigitsOf(v) == SelectSeq(v, IsDigit)

\* the @validator("cpf") of EmployeeBase: None is "raise ValueError"
cpf_must_be_11_digits(v) ==
    IF Len(DigitsOf(v)) # CpfDigits THEN None ELSE Some(DigitsOf(v))

\* Field(..., min_length=11, max_length=11): the length constraint of the
\* field is checked on the text as given, and the validator runs only on a
\* text that passed it
CpfField(v) ==
    IF Len(v) < CpfMinLength \/ Len(v) > CpfMaxLength
    THEN None
    ELSE cpf_must_be_11_digits(v)

NameField(v) ==
    IF Len(v) < NameMinLength \/ Len(v) > NameMaxLength THEN None ELSE Some(v)

StatusField(v) == IF v \in StatusType THEN Some(v) ELSE None

\* EmployeeCreate(**kw): name, cpf, school_id, status are the declared
\* fields; any other keyword (role) is ignored and is no attribute of the
\* object.  None is ValidationError.
EmployeeCreate(kw) ==
    IF NameField(kw.name) = None \/ CpfField(kw.cpf) = None
         \/ StatusField(kw.status) = None
    THEN None
    ELSE Some([name |-> kw.name, cpf |-> CpfField(kw.cpf)[1],
               school_id |-> kw.school_id, status |-> kw.status])

\* EmployeeUpdate(**kw): every declared field is Optional (None or Some(v))
\* An Optional field accepts None as it is; a value goes through the field.
EmployeeUpdate(kw) ==
    LET OptionalName(ov) == IF ov = None THEN Some(None) ELSE
            IF NameField(ov[1]) = None THEN None ELSE Some(NameField(ov[1]))
        OptionalCpf(ov) == IF ov = None THEN Some(None) ELSE
            IF CpfField(ov[1]) = None THEN None ELSE Some(CpfField(ov[1]))
        OptionalStatus(ov) == IF ov = None THEN Some(None) ELSE
            IF StatusField(ov[1]) = None THEN None ELSE Some(StatusField(ov[1]))
    IN
    IF OptionalName(kw.name) = None
         \/ OptionalCpf(kw.cpf) = None
         \/ OptionalStatus(kw.status) = None
    THEN None
    ELSE Some([name |-> kw.name,
               cpf |-> OptionalCpf(kw.cpf)[1],
               school_id |-> kw.school_id, status |-> kw.status])

\* the Employee model rows are parsed into: the same field rules
EmployeeRowValid(row) ==
    /\ NameField(row.name) # None
    /\ CpfField(row.cpf) # None
    /\ StatusField(row.status) # None

\* ObservationCreate(**kw): type is the only constrained field
ObservationCreate(kw) ==
    IF kw.type \notin ObservationType THEN None
    ELSE Some([type |-> kw.type, employee_id |-> kw.employee_id,
               school_id |-> kw.school_id, text |-> kw.text])

\* getattr on a model object: an undeclared name raises AttributeError
HasAttr(obj, attr) == attr \in DOMAIN obj

(***************************************************************************)
(* The hosted backend: users, clock, row-level policy.                     *)
(***************************************************************************)
NoUser == NoneStr

AdminEmail == "monitoramento.conae@gmail.com"
Sup1 == "sup1@x.com"
Sup2 == "sup2@x.com"

\* the auth service's id of the account with this e-mail
UserId(email) == "uid:" \o email

\* what a backend call may do besides answering: "auth" makes the auth call
\* raise, "table" makes the table call raise, "empty" makes an insert answer
\* with no row
FailPoints == {"none", "auth", "table", "empty"}

Ok == "ok"
ValidationError == "ValidationError"
AttributeError == "AttributeError: object has no attribute 'role'"
NotAuthenticated == "RuntimeError: Nenhum usuario logado"
NoFieldsToUpdate == "ValueError: Nenhum campo para atualizar."
NotFound == "RuntimeError: nao encontrado ou nao pertence ao usuario logado"
CreateFailed == "RuntimeError: Erro ao criar no Supabase"
BackendError == "APIError"

\* row-level policy as the access layer documents it: a supervisor reads and
\* writes only the rows stamped with their user id; the admin e-mail reads all
CanSelect(token, row) ==
    /\ token # NoUser
    /\ (row.user_id = UserId(token) \/ token \in ADMIN_EMAILS)

CanModify(token, row) ==
    /\ token # NoUser
    /\ row.user_id = UserId(token)

(***************************************************************************)
(* supabase_client.py: the client singleton and authentication.            *)
(***************************************************************************)
\* create_client(SUPABASE_URL, SUPABASE_KEY): no session, no token
FreshClient == [user |-> NoUser, token |-> NoUser]

\* the value of _supabase after get_supabase_client()
get_supabase_client(c) == IF c = None THEN Some(FreshClient) ELSE c

\* _attach_session_to_postgrest(client, session): session is None or the
\* e-mail of the user the access token was issued to
_attach_session_to_postgrest(client, session) ==
    IF session # NoUser THEN [client EXCEPT !.token = session] ELSE client

\* the client's auth session after a sign-in or sign-up request that brought
\* no session: the auth library may or may not have dropped the old one
AfterAuthRequest(client, dropped) ==
    IF dropped THEN [client EXCEPT !.user = NoUser] ELSE client

\* the answers of the auth service to sign_in_with_password
SignInAnswers(email, password, accounts) ==
    {"raise", "no_user"} \cup (IF <<email, password>> \in accounts THEN {"user"} ELSE {})

\* sign_in(email, password): [err, user, supabase, calls]
sign_in(email, password, c, answer, dropped) ==
    LET sb == get_supabase_client(c)[1]
        calls == <<"auth.sign_in_with_password">>
    IN  IF answer = "raise"
        THEN [err |-> BackendError, user |-> NoUser, calls |-> calls,
              supabase |-> Some(AfterAuthRequest(sb, dropped))]
        ELSE IF answer = "no_user"
        THEN [err |-> Ok, user |-> NoUser, calls |-> calls,
              supabase |-> Some(_attach_session_to_postgrest(
                                  AfterAuthRequest(sb, dropped), NoUser))]
        ELSE [err |-> Ok, user |-> email, calls |-> calls,
              supabase |-> Some(_attach_session_to_postgrest(
                                  [sb EXCEPT !.user = email], email))]

\* the answers of the auth service to sign_up: with "session" the account is
\* confirmed at once and the answer carries a session
SignUpAnswers == {"raise", "no_user", "user", "session"}

sign_up_never_attaches(email, password, c, answer, dropped) ==
    LET sb == get_supabase_client(c)[1]
    IN  [err |-> IF answer = "raise" THEN BackendError ELSE Ok,
         user |-> IF answer \in {"user", "session"} THEN email ELSE NoUser,
         calls |-> <<"auth.sign_up">>,
         supabase |-> Some(AfterAuthRequest(sb, dropped))]

\* sign_up(email, password): [err, user, supabase, calls]
sign_up(email, password, c, answer, dropped) ==
    LET sb == get_supabase_client(c)[1]
        calls == <<"auth.sign_up">>
    IN  IF answer = "raise"
        THEN [err |-> BackendError, user |-> NoUser, calls |-> calls,
              supabase |-> Some(AfterAuthRequest(sb, dropped))]
        ELSE IF answer = "session"
        THEN [err |-> Ok, user |-> email, calls |-> calls,
              supabase |-> Some(_attach_session_to_postgrest(
                                  [sb EXCEPT !.user = email], email))]
        ELSE [err |-> Ok, user |-> IF answer = "user" THEN email ELSE NoUser,
              calls |-> calls,
              supabase |-> Some(_attach_session_to_postgrest(
                                  AfterAuthRequest(sb, dropped), NoUser))]

sign_out_keeps_client(c, raises) ==
    IF c = None THEN [supabase |-> None, calls |-> <<>>]
    ELSE [supabase |-> c, calls |-> <<"auth.sign_out">>]

\* sign_out(): the backend call may raise, which is swallowed
sign_out(c, raises) ==
    IF c = None THEN [supabase |-> None, calls |-> <<>>]
    ELSE [supabase |-> None, calls |-> <<"auth.sign_out">>]

\* _get_current_user(): [err, user, calls]; the auth service is asked only
\* when the client holds a session
_get_current_user(sb, fail) ==
    IF sb.user = NoUser THEN [err |-> Ok, user |-> NoUser, calls |-> <<>>]
    ELSE IF fail = "auth"
    THEN [err |-> BackendError, user |-> NoUser, calls |-> <<"auth.get_user">>]
    ELSE [err |-> Ok, user |-> sb.user, calls |-> <<"auth.get_user">>]

get_current_user_id(sb, fail) ==
    LET r == _get_current_user(sb, fail)
    IN  [err |-> r.err, calls |-> r.calls,
         id |-> IF r.user # NoUser THEN UserId(r.user) ELSE NoUser]

get_current_user_email(sb, fail) ==
    LET r == _get_current_user(sb, fail)
    IN  [err |-> r.err, calls |-> r.calls, email |-> r.user]

(***************************************************************************)
(* supabase_client.py: table "employees".                                  *)
(***************************************************************************)
EmployeeFields == {"id", "user_id", "user_email", "name", "cpf", "school_id",
                   "status", "created_at", "updated_at"}

\* Employee(**row): the declared fields of the row; a column the model does
\* not declare (role) is dropped
Employee(row) == [f \in EmployeeFields |-> row[f]]

\* the rows of a table as a list, by created_at descending (newest id first
\* among rows of one instant)
RECURSIVE OrderDesc(_)
OrderDesc(rows) ==
    IF rows = {} THEN <<>>
    ELSE LET top == CHOOSE r \in rows :
                      \A q \in rows :
                        \/ r.created_at > q.created_at
                        \/ (r.created_at = q.created_at /\ r.id >= q.id)
         IN  <<top>> \o OrderDesc(rows \ {top})

SeqToSet(sq) == {sq[i] : i \in 1..Len(sq)}

\* [Employee(**row) for row in data]
Employees(data) == [i \in 1..Len(data) |-> Employee(data[i])]

\* list_employees(): [err, rows, calls]
list_employees(c, emps, fail) ==
    LET sb == get_supabase_client(c)[1]
        visible == {r \in emps : CanSelect(sb.token, r)}
    IN  IF fail = "table"
        THEN [err |-> BackendError, rows |-> <<>>, calls |-> <<"employees.select">>]
        ELSE IF \E r \in visible : ~EmployeeRowValid(r)
        THEN [err |-> ValidationError, rows |-> <<>>, calls |-> <<"employees.select">>]
        ELSE [err |-> Ok, rows |-> Employees(OrderDesc(visible)),
              calls |-> <<"employees.select">>]

\* the result of a table operation on "employees"
EmpResult(err, calls, sb, table, ret) ==
    [err |-> err, calls |-> calls, supabase |-> Some(sb), table |-> table, ret |-> ret]

\* create_employee(data): the row's id and timestamps are the backend's defaults
create_employee(data, c, emps, fail, t, id) ==
    LET sb == get_supabase_client(c)[1]
        uid == get_current_user_id(sb, fail)
        uem == get_current_user_email(sb, fail)
        authCalls == uid.calls \o uem.calls
    IN  IF uid.err # Ok THEN EmpResult(uid.err, uid.calls, sb, emps, None)
        ELSE IF uid.id = NoUser \/ uem.email = NoUser
        THEN EmpResult(NotAuthenticated, authCalls, sb, emps, None)
        ELSE IF ~HasAttr(data, "role")
        THEN EmpResult(AttributeError, authCalls, sb, emps, None)
        ELSE LET row == [id |-> id, user_id |-> uid.id, user_email |-> uem.email,
                         name |-> data.name, cpf |-> data.cpf,
                         school_id |-> data.school_id, status |-> data.status,
                         role |-> data.role, created_at |-> t, updated_at |-> t]
                 calls == authCalls \o <<"employees.insert">>
             IN  IF fail = "table" \/ row.user_id # UserId(sb.token)
                 THEN EmpResult(BackendError, calls, sb, emps, None)
                 ELSE IF fail = "empty"
                 THEN EmpResult(CreateFailed, calls, sb, emps, None)
                 ELSE EmpResult(Ok, calls, sb, emps \cup {row}, Some(Employee(row)))

\* a row with the columns of the payload overwritten
Merge(row, payload) ==
    [f \in DOMAIN row |-> IF f \in DOMAIN payload THEN payload[f] ELSE row[f]]

\* update_employee(employee_id, data)
update_employee(employee_id, data, c, emps, fail, t) ==
    LET sb == get_supabase_client(c)[1]
        given == {f \in {"name", "cpf", "school_id", "status"} : data[f] # None}
    IN  IF ~HasAttr(data, "role")
        THEN EmpResult(AttributeError, <<>>, sb, emps, None)
        ELSE LET cols == given \cup (IF data.role # None THEN {"role"} ELSE {})
                 payload == [f \in cols \cup {"updated_at"} |->
                               IF f = "updated_at" THEN t ELSE data[f][1]]
                 hit == {r \in emps : r.id = employee_id /\ CanModify(sb.token, r)}
                 calls == <<"employees.update">>
             IN  IF DOMAIN payload = {"updated_at"}
                 THEN EmpResult(NoFieldsToUpdate, <<>>, sb, emps, None)
                 ELSE IF fail = "table"
                 THEN EmpResult(BackendError, calls, sb, emps, None)
                 ELSE IF hit = {}
                 THEN EmpResult(NotFound, calls, sb, emps, None)
                 ELSE LET new == {Merge(r, payload) : r \in hit}
                      IN  EmpResult(Ok, calls, sb, (emps \ hit) \cup new,
                                    Some(Employee(CHOOSE r \in new : TRUE)))

delete_employee_checks_existence(employee_id, c, emps, fail) ==
    LET sb == get_supabase_client(c)[1]
        hit == {r \in emps : r.id = employee_id /\ CanModify(sb.token, r)}
    IN  IF fail = "table"
        THEN EmpResult(BackendError, <<"employees.delete">>, sb, emps, None)
        ELSE IF hit = {}
        THEN EmpResult(NotFound, <<"employees.delete">>, sb, emps, None)
        ELSE EmpResult(Ok, <<"employees.delete">>, sb, emps \ hit, None)

\* delete_employee(employee_id): the answer is not looked at
delete_employee(employee_id, c, emps, fail) ==
    LET sb == get_supabase_client(c)[1]
        hit == {r \in emps : r.id = employee_id /\ CanModify(sb.token, r)}
    IN  IF fail = "table"
        THEN EmpResult(BackendError, <<"employees.delete">>, sb, emps, None)
        ELSE EmpResult(Ok, <<"employees.delete">>, sb, emps \ hit, None)

(***************************************************************************)
(* supabase_client.py: table "observations".                               *)
(***************************************************************************)
ObservationFields == {"id", "user_id", "user_email", "type", "employee_id",
                      "school_id", "text", "created_at"}

\* Observation(**row): updated_at is no declared field
Observation(row) == [f \in ObservationFields |-> row[f]]

create_observation_without_login_check(data, c, obs, fail, t, id) ==
    LET sb == get_supabase_client(c)[1]
        row == [id |-> id, user_id |-> UserId(Sup1), user_email |-> Sup1,
                type |-> data.type, employee_id |-> data.employee_id,
                school_id |-> data.school_id, text |-> data.text,
                created_at |-> t, updated_at |-> t]
    IN  IF fail # "none"
        THEN EmpResult(BackendError, <<"observations.insert">>, sb, obs, None)
        ELSE EmpResult(Ok, <<"observations.insert">>, sb, obs \cup {row},
                       Some(Observation(row)))

\* create_observation(data)
create_observation(data, c, obs, fail, t, id) ==
    LET sb == get_supabase_client(c)[1]
        uid == get_current_user_id(sb, fail)
        uem == get_current_user_email(sb, fail)
        authCalls == uid.calls \o uem.calls
    IN  IF uid.err # Ok THEN EmpResult(uid.err, uid.calls, sb, obs, None)
        ELSE IF uid.id = NoUser \/ uem.email = NoUser
        THEN EmpResult(NotAuthenticated, authCalls, sb, obs, None)
        ELSE LET row == [id |-> id, user_id |-> uid.id, user_email |-> uem.email,
                         type |-> data.type, employee_id |-> data.employee_id,
                         school_id |-> data.school_id, text |-> data.text,
                         created_at |-> t, updated_at |-> t]
                 calls == authCalls \o <<"observations.insert">>
             IN  IF fail = "table" \/ row.user_id # UserId(sb.token)
                 THEN EmpResult(BackendError, calls, sb, obs, None)
                 ELSE IF fail = "empty"
                 THEN EmpResult(CreateFailed, calls, sb, obs, None)
                 ELSE EmpResult(Ok, calls, sb, obs \cup {row}, Some(Observation(row)))

\* [Observation(**row) for row in response.data]
Observations(data) == [i \in 1..Len(data) |-> Observation(data[i])]

\* list_observations(): [err, rows, calls]
list_observations(c, obs, fail) ==
    LET sb == get_supabase_client(c)[1]
        visible == {r \in obs : CanSelect(sb.token, r)}
    IN  IF fail = "table"
        THEN [err |-> BackendError, rows |-> <<>>, calls |-> <<"observations.select">>]
        ELSE [err |-> Ok, rows |-> Observations(OrderDesc(visible)),
              calls |-> <<"observations.select">>]

\* update_observation(observation_id, new_text)
update_observation(observation_id, new_text, c, obs, fail, t) ==
    LET sb == get_supabase_client(c)[1]
        payload == [text |-> new_text, updated_at |-> t]
        hit == {r \in obs : r.id = observation_id /\ CanModify(sb.token, r)}
        calls == <<"observations.update">>
    IN  IF fail = "table"
        THEN EmpResult(BackendError, calls, sb, obs, None)
        ELSE IF hit = {}
        THEN EmpResult(NotFound, calls, sb, obs, None)
        ELSE LET new == {Merge(r, payload) : r \in hit}
             IN  EmpResult(Ok, calls, sb, (obs \ hit) \cup new,
                           Some(Observation(CHOOSE r \in new : TRUE)))

(***************************************************************************)
(* app.py: the per-session state and the screens.                          *)
(***************************************************************************)
MinPasswordLen == 6

\* st.session_state as the first run of the script leaves it
InitSession ==
    [logged_in |-> FALSE, user_email |-> NoneStr, is_admin |-> FALSE,
     current_view |-> "employees"]

\* main(): the screen a session is shown
Screen(ss) ==
    IF ~ss.logged_in THEN "auth"
    ELSE IF ss.is_admin THEN "admin"
    ELSE IF ss.current_view = "observations" THEN "observations"
    ELSE "employees"

\* the texts typed into the e-mail boxes, and text.strip().lower()
EmailInputs == {"", "   ", Sup1, " SUP1@X.COM ", Sup2, AdminEmail}

StripLower(text) ==
    CASE text = "   " -> ""
      [] text = " SUP1@X.COM " -> Sup1
      [] OTHER -> text

PasswordInputs == {"", "abc", "secret1", "wrong-pw"}

(***************************************************************************)
(* The record of the last call.                                            *)
(***************************************************************************)
Snapshot ==
    [supabase |-> supabase, employees |-> employees, observations |-> observations,
     st |-> st, authUsers |-> authUsers]

Record(op, s, arg, fail, err, calls, ret) ==
    last' = [op |-> op, s |-> s, arg |-> arg, fail |-> fail, err |-> err,
             calls |-> calls, ret |-> ret,
             again |-> IF last.op = op THEN last.arg = arg /\ last.err = Ok ELSE FALSE,
             pre |-> Snapshot]

(***************************************************************************)
(* Initial state: two accounts, one employee row of each of two            *)
(* supervisors, no observation, no client yet, one anonymous UI session.   *)
(***************************************************************************)
E1 == [id |-> 1, user_id |-> UserId(Sup1), user_email |-> Sup1, name |-> "Ana",
       cpf |-> CpfPlain, school_id |-> 1, status |-> "Trabalhando",
       role |-> "Lider", created_at |-> 0, updated_at |-> 0]

E2 == [id |-> 2, user_id |-> UserId(Sup2), user_email |-> Sup2, name |-> "Beatriz",
       cpf |-> CpfOther, school_id |-> 2, status |-> "Trabalhando",
       role |-> "Encarregado", created_at |-> 0, updated_at |-> 0]

\* the id the backend hands out first, and an id no row ever has
FirstFreeId == E2.id + 1
AbsentId == E2.id + 7

InitAccounts == {<<Sup1, "secret1">>, <<Sup2, "secret1">>, <<AdminEmail, "secret1">>}

InitLast(op, arg) ==
    [op |-> op, s |-> 0, arg |-> arg, fail |-> "none", err |-> Ok, calls |-> <<>>,
     ret |-> None, again |-> FALSE,
     pre |-> [supabase |-> None, employees |-> {E1, E2}, observations |-> {},
              st |-> [s \in {1} |-> InitSession], authUsers |-> InitAccounts]]

InitState ==
    /\ supabase = None
    /\ authUsers = InitAccounts
    /\ employees = {E1, E2}
    /\ observations = {}
    /\ now = 0
    /\ nextId = FirstFreeId
    /\ st = [s \in {1} |-> InitSession]

Init ==
    /\ InitState
    /\ last = InitLast("init", <<>>)

(***************************************************************************)
(* Calls into the access layer.                                            *)
(***************************************************************************)
Tick ==
    /\ now < MaxClock
    /\ now' = now + 1
    /\ UNCHANGED <<supabase, authUsers, employees, observations, nextId, st, last>>

\* sign_in(email, password) called with a registered account
SignInCall(email, password, answer, dropped) ==
    /\ answer \in SignInAnswers(email, password, authUsers)
    /\ LET r == sign_in(email, password, supabase, answer, dropped)
       IN  /\ supabase' = r.supabase
           /\ Record("sign_in", 0, [email |-> email, password |-> password],
                     answer, r.err, r.calls, Some(r.user))
    /\ UNCHANGED <<authUsers, employees, observations, now, nextId, st>>

SignOutCall(raises) ==
    /\ LET r == sign_out(supabase, raises)
       IN  /\ supabase' = r.supabase
           /\ Record("sign_out", 0, <<>>, IF raises THEN "auth" ELSE "none",
                     Ok, r.calls, None)
    /\ UNCHANGED <<authUsers, employees, observations, now, nextId, st>>

\* create_employee(EmployeeCreate(**kw))
CreateEmployeeCall(kw, fail) ==
    /\ Cardinality(employees) < MaxEmployees
    /\ LET m == EmployeeCreate(kw)
       IN  IF m = None
           THEN /\ Record("create_employee", 0, kw, "none", ValidationError, <<>>, None)
                /\ UNCHANGED <<supabase, employees, nextId>>
           ELSE LET r == create_employee(m[1], supabase, employees, fail, now, nextId)
                IN  /\ supabase' = r.supabase
                    /\ employees' = r.table
                    /\ nextId' = IF r.err = Ok THEN nextId + 1 ELSE nextId
                    /\ Record("create_employee", 0, kw, fail, r.err, r.calls, r.ret)
    /\ UNCHANGED <<authUsers, observations, now, st>>

\* update_employee(employee_id, EmployeeUpdate(**kw))
UpdateEmployeeCall(employee_id, kw, fail) ==
    /\ LET m == EmployeeUpdate(kw)
           arg == [id |-> employee_id, kw |-> kw]
       IN  IF m = None
           THEN /\ Record("update_employee", 0, arg, "none", ValidationError, <<>>, None)
                /\ UNCHANGED <<supabase, employees>>
           ELSE LET r == update_employee(employee_id, m[1], supabase, employees, fail, now)
                IN  /\ supabase' = r.supabase
                    /\ employees' = r.table
                    /\ Record("update_employee", 0, arg, fail, r.err, r.calls, r.ret)
    /\ UNCHANGED <<authUsers, observations, now, nextId, st>>

\* delete_employee(employee_id)
DeleteEmployeeCall(employee_id, fail) ==
    /\ LET r == delete_employee(employee_id, supabase, employees, fail)
       IN  /\ supabase' = r.supabase
           /\ employees' = r.table
           /\ Record("delete_employee", 0, [id |-> employee_id], fail, r.err,
                     r.calls, r.ret)
    /\ UNCHANGED <<authUsers, observations, now, nextId, st>>

\* list_employees()
ListEmployeesCall(fail) ==
    /\ LET r == list_employees(supabase, employees, fail)
       IN  /\ supabase' = get_supabase_client(supabase)
           /\ Record("list_employees", 0, <<>>, fail, r.err, r.calls, Some(r.rows))
    /\ UNCHANGED <<authUsers, employees, observations, now, nextId, st>>

\* create_observation(ObservationCreate(**kw))
CreateObservationCall(kw, fail) ==
    /\ Cardinality(observations) < MaxObs
    /\ LET m == ObservationCreate(kw)
       IN  IF m = None
           THEN /\ Record("create_observation", 0, kw, "none", ValidationError, <<>>, None)
                /\ UNCHANGED <<supabase, observations, nextId>>
           ELSE LET r == create_observation(m[1], supabase, observations, fail, now, nextId)
                IN  /\ supabase' = r.supabase
                    /\ observations' = r.table
                    /\ nextId' = IF r.err = Ok THEN nextId + 1 ELSE nextId
                    /\ Record("create_observation", 0, kw, fail, r.err, r.calls, r.ret)
    /\ UNCHANGED <<authUsers, employees, now, st>>

\* update_observation(observation_id, new_text)
UpdateObservationCall(observation_id, new_text, fail) ==
    /\ LET r == update_observation(observation_id, new_text, supabase, observations,
                                   fail, now)
       IN  /\ supabase' = r.supabase
           /\ observations' = r.table
           /\ Record("update_observation", 0, [id |-> observation_id, text |-> new_text],
                     fail, r.err, r.calls, r.ret)
    /\ UNCHANGED <<authUsers, employees, now, nextId, st>>

\* the arguments the calls are driven with
EmployeeKw ==
    [name : NameInputs, cpf : {CpfPlain, CpfPunctuated}, school_id : {1},
     status : {"Trabalhando"}, role : {"Lider"}]

NoFieldsKw ==
    [name |-> None, cpf |-> None, school_id |-> None, status |-> None, role |-> None]

StatusOnlyKw == [NoFieldsKw EXCEPT !.status = Some("Abandono")]

EmployeeUpdateKw ==
    {NoFieldsKw, StatusOnlyKw,
     [NoFieldsKw EXCEPT !.name = Some("Bia"), !.role = Some("Encarregado")],
     [NoFieldsKw EXCEPT !.cpf = Some(CpfPunctuated)]}

EmployeeIds == {E1.id, E2.id, AbsentId}

ObservationKw ==
    {[type |-> "COLABORADOR", employee_id |-> Some(E1.id), school_id |-> Some(1),
      text |-> "t1"],
     [type |-> "COLABORADOR", employee_id |-> None, school_id |-> Some(1),
      text |-> "t1"],
     [type |-> "ESCOLA", employee_id |-> None, school_id |-> Some(2), text |-> "t1"],
     [type |-> "ESCOLA", employee_id |-> Some(E1.id), school_id |-> None,
      text |-> "t1"]}

ObservationIds == {FirstFreeId, AbsentId}

\* signing in and out through the access layer
SignInOut(emails) ==
    \/ \E email \in emails, answer \in {"raise", "user"}, dropped \in BOOLEAN :
         SignInCall(email, "secret1", answer, dropped)
    \/ \E raises \in BOOLEAN : SignOutCall(raises)

(***************************************************************************)
(* Spec: the access layer of table "employees".                            *)
(***************************************************************************)
Next ==
    \/ Tick
    \/ SignInOut({Sup1, Sup2, AdminEmail})
    \/ \E kw \in EmployeeKw, fail \in FailPoints : CreateEmployeeCall(kw, fail)
    \/ \E id \in EmployeeIds, kw \in EmployeeUpdateKw, fail \in {"none", "table"} :
         UpdateEmployeeCall(id, kw, fail)
    \/ \E id \in EmployeeIds, fail \in {"none", "table"} : DeleteEmployeeCall(id, fail)
    \/ \E fail \in {"none", "table"} : ListEmployeesCall(fail)

Spec == Init /\ [][Next]_vars

(***************************************************************************)
(* SpecObs: the access layer of table "observations", with the creation    *)
(* and update of employees beside it.                                      *)
(***************************************************************************)
NextObs ==
    \/ SignInOut({Sup1, AdminEmail})
    \/ \E kw \in EmployeeKw, fail \in {"none", "auth"} : CreateEmployeeCall(kw, fail)
    \/ \E id \in EmployeeIds, kw \in {NoFieldsKw, StatusOnlyKw} :
         UpdateEmployeeCall(id, kw, "none")
    \/ \E kw \in ObservationKw, fail \in FailPoints : CreateObservationCall(kw, fail)
    \/ \E id \in ObservationIds, fail \in {"none", "table"} :
         UpdateObservationCall(id, "t2", fail)

SpecObs == Init /\ [][NextObs]_vars

(***************************************************************************)
(* SpecCpf: the two validation models applied to every CPF text.           *)
(***************************************************************************)
InitCpf ==
    /\ InitState
    /\ \E v \in AllCpfInputs : last = InitLast("input", [cpf |-> v])

\* EmployeeCreate(name=..., cpf=v, school_id=..., status=..., role=...)
ValidateCreate ==
    /\ last.op = "input"
    /\ LET m == EmployeeCreate([name |-> "Ana", cpf |-> last.arg.cpf, school_id |-> 1,
                                status |-> "Trabalhando", role |-> "Lider"])
       IN  Record("EmployeeCreate", 0, last.arg, "none",
                  IF m = None THEN ValidationError ELSE Ok, <<>>,
                  IF m = None THEN None ELSE Some(m[1].cpf))
    /\ UNCHANGED <<supabase, authUsers, employees, observations, now, nextId, st>>

\* EmployeeUpdate(cpf=v)
ValidateUpdate ==
    /\ last.op = "input"
    /\ LET m == EmployeeUpdate([NoFieldsKw EXCEPT !.cpf = Some(last.arg.cpf)])
       IN  Record("EmployeeUpdate", 0, last.arg, "none",
                  IF m = None THEN ValidationError ELSE Ok, <<>>,
                  IF m = None THEN None ELSE m[1].cpf)
    /\ UNCHANGED <<supabase, authUsers, employees, observations, now, nextId, st>>

NextCpf == ValidateCreate \/ ValidateUpdate

SpecCpf == InitCpf /\ [][NextCpf]_vars

(***************************************************************************)
(* app.py: the handlers of the auth screen and of the sidebar.             *)
(***************************************************************************)
IsAdminNever(email) == FALSE

\* user.email in ADMIN_EMAILS
IsAdmin(email) == email \in ADMIN_EMAILS

\* the session after a sign-in that returned a user
LoggedIn(ss, email) ==
    [ss EXCEPT !.logged_in = TRUE, !.user_email = email, !.is_admin = IsAdmin(email),
               !.current_view = "employees"]

LoggedOutKeepsAdmin(ss) ==
    [ss EXCEPT !.logged_in = FALSE, !.user_email = NoneStr,
               !.current_view = "employees"]

\* the session after do_logout
LoggedOut(ss) ==
    [ss EXCEPT !.logged_in = FALSE, !.user_email = NoneStr, !.is_admin = FALSE,
               !.current_view = "employees"]

\* the login form submitted (show_auth_screen, "Entrar")
LoginSubmit(s, email, password, answer, dropped) ==
    /\ Screen(st[s]) = "auth"
    /\ LET email_clean == StripLower(email)
           arg == [email |-> email, password |-> password]
       IN  IF email_clean = "" \/ password = ""
           THEN /\ answer = "raise" /\ ~dropped
                /\ Record("login", s, arg, "none", "Preencha e-mail e senha.", <<>>, None)
                /\ UNCHANGED <<supabase, st>>
           ELSE /\ answer \in SignInAnswers(email_clean, password, authUsers)
                /\ LET r == sign_in(email_clean, password, supabase, answer, dropped)
                   IN  /\ supabase' = r.supabase
                       /\ st' = IF r.err = Ok /\ r.user # NoUser
                                THEN [st EXCEPT ![s] = LoggedIn(@, r.user)]
                                ELSE st
                       /\ Record("login", s, arg, answer,
                                 IF r.err # Ok THEN r.err
                                 ELSE IF r.user = NoUser THEN "Credenciais invalidas"
                                 ELSE Ok,
                                 r.calls, Some(r.user))
    /\ UNCHANGED <<authUsers, employees, observations, now, nextId>>

\* the answers of the auth service to a sign-up with this e-mail: a session
\* comes only with a newly registered account
SignUpAnswersFor(email, accounts) ==
    IF \E a \in accounts : a[1] = email
    THEN SignUpAnswers \ {"session"}
    ELSE SignUpAnswers

\* the accounts after the auth service answered a sign-up
Registered(email, password, answer, accounts) ==
    IF answer \in {"user", "session"} /\ ~(\E a \in accounts : a[1] = email)
    THEN accounts \cup {<<email, password>>}
    ELSE accounts

\* the sign-up form submitted (show_auth_screen, "Criar conta")
SignupSubmit(s, email, password, confirm, answer, dropped) ==
    /\ Screen(st[s]) = "auth"
    /\ LET email_clean == StripLower(email)
           arg == [email |-> email, password |-> password, confirm |-> confirm]
           refused == IF email_clean = "" \/ password = "" \/ confirm = ""
                      THEN "Preencha todos os campos."
                      ELSE IF password # confirm THEN "As senhas nao conferem."
                      ELSE IF Len(password) < MinPasswordLen
                      THEN "A senha deve ter pelo menos 6 caracteres."
                      ELSE Ok
       IN  IF refused # Ok
           THEN /\ answer = "raise" /\ ~dropped
                /\ Record("signup", s, arg, "none", refused, <<>>, None)
                /\ UNCHANGED <<supabase, authUsers>>
           ELSE /\ answer \in SignUpAnswersFor(email_clean, authUsers)
                /\ LET r == sign_up(email_clean, password, supabase, answer, dropped)
                   IN  /\ supabase' = r.supabase
                       /\ authUsers' = Registered(email_clean, password, answer, authUsers)
                       /\ Record("signup", s, arg, answer, r.err, r.calls, Some(r.user))
    /\ UNCHANGED <<employees, observations, now, nextId, st>>

do_logout_clears_session(s, raises) ==
    /\ st[s].logged_in
    /\ LET r == sign_out(supabase, raises)
       IN  /\ supabase' = r.supabase
           /\ st' = [st EXCEPT ![s] = InitSession]
           /\ Record("do_logout", s, <<>>, IF raises THEN "auth" ELSE "none", Ok,
                     r.calls, None)
    /\ UNCHANGED <<authUsers, employees, observations, now, nextId>>

\* do_logout(), from the sidebar button "Sair"
do_logout(s, raises) ==
    /\ st[s].logged_in
    /\ LET r == sign_out(supabase, raises)
       IN  /\ supabase' = r.supabase
           /\ st' = [st EXCEPT ![s] = LoggedOut(@)]
           /\ Record("do_logout", s, <<>>, IF raises THEN "auth" ELSE "none", Ok,
                     r.calls, None)
    /\ UNCHANGED <<authUsers, employees, observations, now, nextId>>

\* the sidebar's navigation button, shown to a supervisor only
Navigate(s) ==
    /\ st[s].logged_in
    /\ ~st[s].is_admin
    /\ st' = [st EXCEPT ![s].current_view =
                IF @ = "employees" THEN "observations" ELSE "employees"]
    /\ Record("navigate", s, <<>>, "none", Ok, <<>>, None)
    /\ UNCHANGED <<supabase, authUsers, employees, observations, now, nextId>>

SignupEmailInputs == {"", " SUP1@X.COM ", "novo@x.com"}

SignupPasswordInputs == {"", "abc", "secret1"}

(***************************************************************************)
(* SpecAuth: one UI session on the auth screen and the sidebar, with the   *)
(* access layer's sign_out and list_employees called beside it.            *)
(***************************************************************************)
NextAuth ==
    \/ \E s \in DOMAIN st, email \in EmailInputs, password \in PasswordInputs,
          answer \in {"raise", "no_user", "user"}, dropped \in BOOLEAN :
         LoginSubmit(s, email, password, answer, dropped)
    \/ \E s \in DOMAIN st, email \in SignupEmailInputs,
          password \in SignupPasswordInputs, confirm \in SignupPasswordInputs,
          answer \in SignUpAnswers, dropped \in BOOLEAN :
         SignupSubmit(s, email, password, confirm, answer, dropped)
    \/ \E s \in DOMAIN st, raises \in BOOLEAN : do_logout(s, raises)
    \/ \E s \in DOMAIN st : Navigate(s)
    \/ \E raises \in BOOLEAN : SignOutCall(raises)
    \/ \E fail \in {"none", "table"} : ListEmployeesCall(fail)

SpecAuth == Init /\ [][NextAuth]_vars

(***************************************************************************)
(* The backend's table "schools", filled outside the application.          *)
(***************************************************************************)
SchoolA == [id |-> 1, name |-> "Escola A"]
SchoolB == [id |-> 2, name |-> "Escola B"]

\* what the table may hold when it is read, ordered by name

\* list_schools(): [err, rows, calls]
list_schools(c, schools, fail) ==
    IF fail = "schools"
    THEN [err |-> BackendError, rows |-> <<>>, calls |-> <<"schools.select">>]
    ELSE [err |-> Ok, rows |-> schools, calls |-> <<"schools.select">>]

\* school_labels: name -> id, as a set of names and the id of a name
SchoolNames(schools) == {schools[i].name : i \in 1..Len(schools)}

SchoolIdOf(schools, label) ==
    schools[CHOOSE i \in 1..Len(schools) : schools[i].name = label].id

\* text.strip() of the texts typed into the text areas
Strip(text) ==
    CASE text = "  " -> ""
      [] text = " t1 " -> "t1"
      [] OTHER -> text

(***************************************************************************)
(* app.py: the observation screen.                                         *)
(***************************************************************************)
\* st.session_state.get("editing_obs_<id>", False), for all ids at once
Editing(ss, key) == IF key \in DOMAIN ss THEN ss[key] ELSE {}

WithEditing(ss, key, ids) ==
    [f \in DOMAIN ss \cup {key} |-> IF f = key THEN ids ELSE ss[f]]

ObsFormDataUnchecked(tipo, selected_employee_id, selected_school_id, texto_clean) ==
    Some([type |-> IF tipo = "Colaborador" THEN "COLABORADOR" ELSE "ESCOLA",
          employee_id |-> selected_employee_id, school_id |-> selected_school_id,
          text |-> texto_clean])

\* the submitted observation form: None when the form answers with a warning,
\* else the keywords ObservationCreate is built from
ObsFormData(tipo, selected_employee_id, selected_school_id, texto_clean) ==
    IF tipo = "Colaborador"
    THEN IF selected_employee_id = None \/ selected_school_id = None
              \/ texto_clean = ""
         THEN None
         ELSE Some([type |-> "COLABORADOR", employee_id |-> selected_employee_id,
                    school_id |-> selected_school_id, text |-> texto_clean])
    ELSE IF selected_school_id = None \/ texto_clean = ""
         THEN None
         ELSE Some([type |-> "ESCOLA", employee_id |-> None,
                    school_id |-> selected_school_id, text |-> texto_clean])

\* the backend reads of one run of the observation screen that nothing stops
ObsScreenReads == <<"schools.select", "employees.select", "observations.select">>

\* "Registrar observação": one run of show_observations_screen with the form
\* submitted, and the rerun that follows a successful create
ObsSubmit(s, schools, tipo, emp, school, texto, fail) ==
    /\ Screen(st[s]) = "observations"
    /\ Cardinality(observations) < MaxObs
    /\ LET sch == list_schools(supabase, schools, fail)
           emps == list_employees(supabase, employees, IF fail = "list" THEN "table" ELSE "none")
           arg == [tipo |-> tipo, employee_id |-> emp, school_id |-> school,
                   text |-> texto]
           kw == ObsFormData(tipo, IF tipo = "Colaborador" THEN emp ELSE None,
                             school, Strip(texto))
       IN  /\ emp # None => \E i \in 1..Len(emps.rows) : emps.rows[i].id = emp[1]
           /\ school # None => \E i \in 1..Len(schools) : schools[i].id = school[1]
           /\ IF sch.err # Ok \/ sch.rows = <<>>
              THEN /\ supabase' = get_supabase_client(supabase)
                   /\ Record("obs_submit", s, arg, fail,
                             IF sch.err # Ok THEN "Erro ao carregar escolas"
                             ELSE "Nenhuma escola cadastrada", sch.calls, None)
                   /\ UNCHANGED <<observations, nextId>>
              ELSE IF emps.err # Ok
              THEN /\ supabase' = get_supabase_client(supabase)
                   /\ Record("obs_submit", s, arg, fail, "Erro ao carregar funcionarios",
                             sch.calls \o emps.calls, None)
                   /\ UNCHANGED <<observations, nextId>>
              ELSE IF kw = None
              THEN /\ supabase' = get_supabase_client(supabase)
                   /\ Record("obs_submit", s, arg, fail, "Selecione e preencha",
                             sch.calls \o emps.calls \o <<"observations.select">>, None)
                   /\ UNCHANGED <<observations, nextId>>
              ELSE LET r == create_observation(ObservationCreate(kw[1])[1], supabase,
                                               observations, fail, now, nextId)
                   IN  /\ supabase' = r.supabase
                       /\ observations' = r.table
                       /\ nextId' = IF r.err = Ok THEN nextId + 1 ELSE nextId
                       /\ Record("obs_submit", s, arg, fail, r.err,
                                 sch.calls \o emps.calls \o r.calls
                                   \o (IF r.err = Ok THEN ObsScreenReads
                                       ELSE <<"observations.select">>),
                                 r.ret)
    /\ UNCHANGED <<authUsers, employees, now, st>>

\* "Editar" on a listed observation
ObsEditClick(s, id) ==
    /\ Screen(st[s]) = "observations"
    /\ \E o \in observations : o.id = id /\ CanSelect(get_supabase_client(supabase)[1].token, o)
    /\ id \notin Editing(st[s], "editing_obs")
    /\ st' = [st EXCEPT ![s] = WithEditing(@, "editing_obs", Editing(@, "editing_obs") \cup {id})]
    /\ supabase' = get_supabase_client(supabase)
    /\ Record("obs_edit", s, [id |-> id], "none", Ok, ObsScreenReads, None)
    /\ UNCHANGED <<authUsers, employees, observations, now, nextId>>

\* "Salvar" in the edit form of a listed observation
ObsEditSave(s, id, new_text, fail) ==
    /\ Screen(st[s]) = "observations"
    /\ \E o \in observations : o.id = id /\ CanSelect(get_supabase_client(supabase)[1].token, o)
    /\ id \in Editing(st[s], "editing_obs")
    /\ LET r == update_observation(id, Strip(new_text), supabase, observations, fail, now)
       IN  /\ supabase' = r.supabase
           /\ observations' = r.table
           /\ st' = IF r.err = Ok
                    THEN [st EXCEPT ![s] = WithEditing(@, "editing_obs", Editing(@, "editing_obs") \ {id})]
                    ELSE st
           /\ Record("obs_save", s, [id |-> id, text |-> new_text], fail, r.err,
                     ObsScreenReads \o r.calls
                       \o (IF r.err = Ok THEN ObsScreenReads ELSE <<>>), r.ret)
    /\ UNCHANGED <<authUsers, employees, now, nextId>>

(***************************************************************************)
(* SpecObsScreen: one UI session of a supervisor on the observation screen. *)
(***************************************************************************)
NextObsScreen ==
    \/ \E s \in DOMAIN st, email \in {Sup1, Sup2}, answer \in {"raise", "user"} :
         LoginSubmit(s, email, "secret1", answer, FALSE)
    \/ \E s \in DOMAIN st : do_logout(s, FALSE)
    \/ \E s \in DOMAIN st : Navigate(s)
    \/ \E s \in DOMAIN st, schools \in {<<SchoolA, SchoolB>>, <<>>},
          tipo \in {"Colaborador", "Escola"},
          emp \in {None, Some(1), Some(2)}, school \in {None, Some(1), Some(2)},
          texto \in {"  ", " t1 "}, fail \in {"none", "table", "schools", "list"} :
         ObsSubmit(s, schools, tipo, emp, school, texto, fail)
    \/ \E s \in DOMAIN st, id \in ObservationIds : ObsEditClick(s, id)
    \/ \E s \in DOMAIN st, id \in ObservationIds, new_text \in {"", " t1 "},
          fail \in {"none", "table"} :
         ObsEditSave(s, id, new_text, fail)

SpecObsScreen == Init /\ [][NextObsScreen]_vars

(***************************************************************************)
(* app.py: the roster screen (show_employees_screen), its texts first.     *)
(* A text that is searched is the sequence of its characters.              *)
(***************************************************************************)
\* the characters of the names stored rows carry
Chars(text) ==
    CASE text = "Ana" -> <<"A", "n", "a">>
      [] text = "Beatriz" -> <<"B", "e", "a", "t", "r", "i", "z">>
      [] text = "Bia" -> <<"B", "i", "a">>
      [] text = "" -> <<>>

\* str.lower(), character by character
LowerText(t) ==
    LET upper == <<"A", "B", "C", "D", "E", "F", "G", "H", "I", "J", "K", "L", "M",
                   "N", "O", "P", "Q", "R", "S", "T", "U", "V", "W", "X", "Y", "Z">>
        lower == <<"a", "b", "c", "d", "e", "f", "g", "h", "i", "j", "k", "l", "m",
                   "n", "o", "p", "q", "r", "s", "t", "u", "v", "w", "x", "y", "z">>
        LowerChar(ch) ==
            IF \E i \in 1..Len(upper) : upper[i] = ch
            THEN lower[CHOOSE i \in 1..Len(upper) : upper[i] = ch]
            ELSE ch
    IN  [i \in 1..Len(t) |-> LowerChar(t[i])]

\* str.strip() of a sequence of characters
RECURSIVE StripText(_)
StripText(t) ==
    IF t = <<>> THEN t
    ELSE IF Head(t) = " " THEN StripText(Tail(t))
    ELSE IF t[Len(t)] = " " THEN StripText(SubSeq(t, 1, Len(t) - 1))
    ELSE t

\* needle in hay
Contains(needle, hay) ==
    \E i \in 0..(Len(hay) - Len(needle)) : SubSeq(hay, i + 1, i + Len(needle)) = needle

\* st.session_state.emp_page and .filters as the first run of the screen
\* leaves them
WithRosterState(ss) ==
    LET defaults == [emp_page |-> 1,
                     filters |-> [name |-> <<>>, cpf |-> <<>>, school |-> "Todas"]]
    IN  IF "emp_page" \in DOMAIN ss THEN ss
        ELSE [f \in DOMAIN ss \cup DOMAIN defaults |->
                IF f \in DOMAIN ss THEN ss[f] ELSE defaults[f]]

FilterEmployeesByNameOnly(fetched, filters, schools) ==
    LET name_lower == LowerText(StripText(filters.name))
        NameHit(e) == Contains(name_lower, LowerText(Chars(e.name)))
    IN  IF filters.name # <<>> THEN SelectSeq(fetched, NameHit) ELSE fetched

\* employees_filtered: the three filters applied one after the other
FilterEmployees(fetched, filters, schools) ==
    LET name_lower == LowerText(StripText(filters.name))
        NameHit(e) == Contains(name_lower, LowerText(Chars(e.name)))
        byName == IF filters.name # <<>> THEN SelectSeq(fetched, NameHit) ELSE fetched
        cpf_digits_filter == DigitsOf(filters.cpf)
        CpfHit(e) == Contains(cpf_digits_filter, DigitsOf(e.cpf))
        byCpf == IF filters.cpf # <<>> THEN SelectSeq(byName, CpfHit) ELSE byName
        SchoolHit(e) == e.school_id = SchoolIdOf(schools, filters.school)
    IN  IF filters.school # "Todas" THEN SelectSeq(byCpf, SchoolHit) ELSE byCpf

PageSize == 10

\* the page of the filtered employees that is listed, and its two buttons
Pagination(employees_filtered, emp_page) ==
    LET total_registros == Len(employees_filtered)
        total_paginas == (total_registros - 1) \div PageSize + 1
        capped == IF emp_page > total_paginas THEN total_paginas ELSE emp_page
        page == IF capped < 1 THEN 1 ELSE capped
        start_idx == (page - 1) * PageSize
        end_idx == start_idx + PageSize
        stop == IF end_idx > total_registros THEN total_registros ELSE end_idx
        employees_pagina == IF start_idx >= total_registros THEN <<>>
                            ELSE SubSeq(employees_filtered, start_idx + 1, stop)
    IN  [rows |-> employees_pagina, page |-> page, total_paginas |-> total_paginas,
         prev_disabled |-> (page <= 1), next_disabled |-> (page >= total_paginas)]

\* format_br_datetime: the instant shown on the clock of Brasilia
format_br_datetime(t) == <<"America/Sao_Paulo", t>>

\* the rows of the export's DataFrame: None when reading a column raises
ExportRows(employees_filtered, schools) ==
    LET \* school_map.get(school_id, f"ID {school_id}")
        SchoolLabel(school_id) ==
            IF \E i \in 1..Len(schools) : schools[i].id = school_id
            THEN schools[CHOOSE i \in 1..Len(schools) : schools[i].id = school_id].name
            ELSE <<"ID", school_id>>
    IN
    IF \E i \in 1..Len(employees_filtered) : ~HasAttr(employees_filtered[i], "role")
    THEN None
    ELSE Some([i \in 1..Len(employees_filtered) |->
                 LET e == employees_filtered[i]
                 IN  [Nome |-> e.name, CPF |-> e.cpf,
                      Escola |-> SchoolLabel(e.school_id),
                      Funcao |-> e.role, Situacao |-> e.status,
                      Cadastrado |-> format_br_datetime(e.created_at),
                      Atualizado |-> format_br_datetime(e.updated_at)]])

\* what a run of the screen ends with: a message or the list, the page
\* number it leaves in the session, and what it builds on the way
View(outcome, emp_page, filtered, shown, export) ==
    [outcome |-> outcome, emp_page |-> emp_page, filtered |-> filtered,
     shown |-> shown, export |-> export]

KeyError == "KeyError"

\* the screen from the fetched employees on (the part below the new-employee
\* form)
RosterView(ss, schools, fetched) ==
    LET Mine(e) == e.user_email = ss.user_email
        mine == IF ss.is_admin THEN SelectSeq(fetched, Mine) ELSE fetched
    IN  IF fetched = <<>>
        THEN View("Nenhum funcionario cadastrado ainda.", ss.emp_page, None, None, None)
        ELSE IF mine = <<>>
        THEN View("Nenhum funcionario cadastrado por voce.", ss.emp_page, None, None, None)
        ELSE IF ss.filters.school # "Todas" /\ ss.filters.school \notin SchoolNames(schools)
        THEN View(KeyError, ss.emp_page, None, None, None)
        ELSE LET employees_filtered == FilterEmployees(mine, ss.filters, schools)
                 shown == Pagination(employees_filtered, ss.emp_page)
                 page == shown.page
                 export == ExportRows(employees_filtered, schools)
             IN  IF employees_filtered = <<>>
                 THEN View("Nenhum funcionario encontrado com os filtros aplicados.",
                           ss.emp_page, Some(<<>>), None, None)
                 ELSE IF export = None
                 THEN View(AttributeError, page, Some(employees_filtered), None, None)
                 ELSE View("lista", page, Some(employees_filtered),
                           Some(shown), export)

\* the screen from list_employees() on: [calls, view]
RosterLoad(ss, schools, c, emps, fail) ==
    LET l == list_employees(c, emps, IF fail = "list" THEN "table" ELSE "none")
    IN  IF l.err # Ok
        THEN [calls |-> l.calls,
              view |-> View("Erro ao carregar funcionarios", ss.emp_page, None, None, None)]
        ELSE [calls |-> l.calls, view |-> RosterView(ss, schools, l.rows)]

\* one whole run of the screen in which no button is pressed: [calls, view]
RosterRun(ss, schools, c, emps, fail) ==
    LET sch == list_schools(c, schools, fail)
        rest == RosterLoad(ss, schools, c, emps, fail)
    IN  IF sch.err # Ok
        THEN [calls |-> sch.calls,
              view |-> View("Erro ao carregar escolas", ss.emp_page, None, None, None)]
        ELSE IF sch.rows = <<>>
        THEN [calls |-> sch.calls,
              view |-> View("Nenhuma escola cadastrada.", ss.emp_page, None, None, None)]
        ELSE [calls |-> sch.calls \o rest.calls, view |-> rest.view]

\* a run of the roster screen with no button pressed (the first one after a
\* login, a reload of the page)
RosterShow(s, schools, fail) ==
    /\ Screen(st[s]) = "employees"
    /\ LET ss == WithRosterState(st[s])
           run == RosterRun(ss, schools, supabase, employees, fail)
       IN  /\ st' = [st EXCEPT ![s] = [ss EXCEPT !.emp_page = run.view.emp_page]]
           /\ supabase' = get_supabase_client(supabase)
           /\ Record("roster", s, [schools |-> schools], fail, Ok, run.calls,
                     Some(run.view))
    /\ UNCHANGED <<authUsers, employees, observations, now, nextId>>

\* "Cadastrar": a run with the new-employee form submitted, and the rerun
\* that follows a successful create
RosterCreateSubmit(s, schools, form, fail) ==
    /\ Screen(st[s]) = "employees"
    /\ form.school \in {"Selecione a escola"} \cup SchoolNames(schools)
    /\ LET ss == WithRosterState(st[s])
           sch == list_schools(supabase, schools, fail)
           arg == [schools |-> schools, form |-> form]
           name_clean == Strip(form.name)
           cpf_clean == StripText(form.cpf)
           refused == \/ name_clean = "" \/ cpf_clean = <<>>
                      \/ form.school = "Selecione a escola"
                      \/ form.role = "Selecione a funcao"
                      \/ form.status = "Selecione a situacao"
           m == EmployeeCreate([name |-> name_clean, cpf |-> cpf_clean,
                                school_id |-> SchoolIdOf(schools, form.school),
                                status |-> form.status, role |-> form.role])
           r == create_employee(m[1], supabase, employees, fail, now, nextId)
       IN  IF sch.err # Ok \/ sch.rows = <<>>
           THEN LET run == RosterRun(ss, schools, supabase, employees, fail)
                IN  /\ st' = [st EXCEPT ![s] = ss]
                    /\ supabase' = get_supabase_client(supabase)
                    /\ Record("roster_create", s, arg, fail, "formulario nao enviado",
                              run.calls, Some(run.view))
                    /\ UNCHANGED <<employees, nextId>>
           ELSE IF refused \/ m = None
           THEN LET rest == RosterLoad(ss, schools, supabase, employees, fail)
                IN  /\ st' = [st EXCEPT ![s] = [ss EXCEPT !.emp_page = rest.view.emp_page]]
                    /\ supabase' = get_supabase_client(supabase)
                    /\ Record("roster_create", s, arg, fail,
                              IF refused THEN "campos obrigatorios" ELSE ValidationError,
                              sch.calls \o rest.calls, Some(rest.view))
                    /\ UNCHANGED <<employees, nextId>>
           ELSE IF r.err # Ok
           THEN LET rest == RosterLoad(ss, schools, r.supabase, employees, fail)
                IN  /\ st' = [st EXCEPT ![s] = [ss EXCEPT !.emp_page = rest.view.emp_page]]
                    /\ supabase' = r.supabase
                    /\ Record("roster_create", s, arg, fail, r.err,
                              sch.calls \o r.calls \o rest.calls, Some(rest.view))
                    /\ UNCHANGED <<employees, nextId>>
           ELSE LET run == RosterRun([ss EXCEPT !.emp_page = 1], schools, r.supabase,
                                     r.table, fail)
                IN  /\ st' = [st EXCEPT ![s] = [ss EXCEPT !.emp_page = run.view.emp_page]]
                    /\ supabase' = r.supabase
                    /\ employees' = r.table
                    /\ nextId' = nextId + 1
                    /\ Record("roster_create", s, arg, fail, Ok,
                              sch.calls \o r.calls \o run.calls, Some(run.view))
    /\ UNCHANGED <<authUsers, observations, now>>

\* "Aplicar filtros": a run with the filter form submitted, and the rerun
\* that follows; the form exists only in a run that fetched rows of the user
RosterApplyFilters(s, schools, f, fail) ==
    /\ Screen(st[s]) = "employees"
    /\ f.school \in {"Todas"} \cup SchoolNames(schools)
    /\ LET ss == WithRosterState(st[s])
           first == RosterRun(ss, schools, supabase, employees, fail)
           applied == [ss EXCEPT !.filters = [name |-> StripText(f.name),
                                              cpf |-> StripText(f.cpf),
                                              school |-> f.school],
                                 !.emp_page = 1]
           run == RosterRun(applied, schools, supabase, employees, fail)
       IN  /\ first.view.outcome \notin
                {"Erro ao carregar escolas", "Nenhuma escola cadastrada.",
                 "Erro ao carregar funcionarios", "Nenhum funcionario cadastrado ainda.",
                 "Nenhum funcionario cadastrado por voce."}
           /\ st' = [st EXCEPT ![s] = [applied EXCEPT !.emp_page = run.view.emp_page]]
           /\ supabase' = get_supabase_client(supabase)
           /\ Record("roster_filter", s, [schools |-> schools, filters |-> f], fail, Ok,
                     <<"schools.select", "employees.select">> \o run.calls,
                     Some(run.view))
    /\ UNCHANGED <<authUsers, employees, observations, now, nextId>>

\* what is typed and chosen in the forms of the roster
NewEmployeeForms ==
    {[name |-> "Ana", cpf |-> CpfPlain, school |-> "Escola A", role |-> "Lider",
      status |-> "Trabalhando"],
     [name |-> "Ana", cpf |-> CpfPunctuated, school |-> "Escola A", role |-> "Lider",
      status |-> "Abandono"],
     [name |-> "", cpf |-> CpfPlain, school |-> "Escola A", role |-> "Lider",
      status |-> "Trabalhando"],
     [name |-> "Ana", cpf |-> CpfPlain, school |-> "Selecione a escola",
      role |-> "Selecione a funcao", status |-> "Selecione a situacao"]}

NoFilter == [name |-> <<>>, cpf |-> <<>>, school |-> "Todas"]

FilterForms ==
    {NoFilter,
     [NoFilter EXCEPT !.name = <<"a", "n", "a">>],
     [NoFilter EXCEPT !.name = <<" ", "A", "N", " ">>, !.school = "Escola B"],
     [NoFilter EXCEPT !.name = <<"z">>],
     [NoFilter EXCEPT !.cpf = <<"8", "9", ".", "0", "9">>, !.school = "Escola A"],
     [NoFilter EXCEPT !.cpf = <<"-">>, !.school = "Escola B"]}

(***************************************************************************)
(* SpecRoster: one UI session on the roster screen, over rosters of        *)
(* several sizes.                                                          *)
(***************************************************************************)
MaxRoster == 23    \* rows of the supervisor sup1 in the largest roster

\* rosters of 1, 2 and MaxRoster rows of sup1; the further rows are Beatriz of
\* school 2 and Ana of school 1 in turn
InitRoster ==
    /\ supabase = None
    /\ authUsers = InitAccounts
    /\ LET ExtraRow(i) ==
               [id |-> 100 + i, user_id |-> UserId(Sup1), user_email |-> Sup1,
                name |-> IF i % 2 = 1 THEN "Beatriz" ELSE "Ana",
                cpf |-> IF i % 2 = 1 THEN CpfOther ELSE CpfPlain,
                school_id |-> IF i % 2 = 1 THEN 2 ELSE 1,
                status |-> IF i % 3 = 0 THEN "Abandono" ELSE "Trabalhando",
                role |-> "Lider", created_at |-> 0, updated_at |-> 0]
       IN  \E n \in {1, 2, MaxRoster} :
             employees = {E1, E2} \cup {ExtraRow(i) : i \in 1..(n - 1)}
    /\ observations = {}
    /\ now = 0
    /\ nextId = FirstFreeId
    /\ st = [s \in {1} |-> InitSession]
    /\ last = [InitLast("init", <<>>) EXCEPT !.pre.employees = employees]

NextRoster ==
    \/ \E s \in DOMAIN st, email \in {Sup1, Sup2}, answer \in {"raise", "user"} :
         LoginSubmit(s, email, "secret1", answer, FALSE)
    \/ \E s \in DOMAIN st : do_logout(s, FALSE)
    \/ \E s \in DOMAIN st, schools \in {<<SchoolA, SchoolB>>, <<SchoolA>>, <<>>},
          fail \in {"none", "schools", "list"} :
         RosterShow(s, schools, fail)
    \/ \E s \in DOMAIN st, form \in NewEmployeeForms, fail \in {"none", "auth", "schools"} :
         RosterCreateSubmit(s, <<SchoolA, SchoolB>>, form, fail)
    \/ \E s \in DOMAIN st, f \in FilterForms, fail \in {"none", "list"} :
         RosterApplyFilters(s, <<SchoolA, SchoolB>>, f, fail)

SpecRoster == InitRoster /\ [][NextRoster]_vars

(***************************************************************************)
(* app.py: the buttons of a listed employee (status toggle, inline edit).  *)
(* Each action is the button's handler for a row that list_employees()     *)
(* returns to the process-wide client.                                     *)
(***************************************************************************)
\* the employee of this id among the fetched ones
Listed(id) ==
    LET rows == list_employees(supabase, employees, "none").rows
    IN  {rows[i] : i \in {j \in 1..Len(rows) : rows[j].id = id}}

\* the backend reads of a roster run up to the list
RosterReads == <<"schools.select", "employees.select">>

\* new_status of the toggle button
OtherStatus(status) == IF status = "Trabalhando" THEN "Abandono" ELSE "Trabalhando"

\* "Marcar Abandono" / "Marcar Trabalhando"
ToggleStatus(s, id, fail) ==
    /\ Screen(st[s]) = "employees"
    /\ Listed(id) # {}
    /\ LET emp == CHOOSE e \in Listed(id) : TRUE
           m == EmployeeUpdate([NoFieldsKw EXCEPT !.status = Some(OtherStatus(emp.status))])
           r == update_employee(id, m[1], supabase, employees, fail, now)
       IN  /\ supabase' = r.supabase
           /\ employees' = r.table
           /\ Record("toggle", s, [id |-> id, status |-> emp.status], fail, r.err,
                     RosterReads \o r.calls \o (IF r.err = Ok THEN RosterReads ELSE <<>>),
                     r.ret)
    /\ UNCHANGED <<authUsers, observations, now, nextId, st>>

\* "Editar"
EditClick(s, id) ==
    /\ Screen(st[s]) = "employees"
    /\ Listed(id) # {}
    /\ id \notin Editing(st[s], "editing")
    /\ st' = [st EXCEPT ![s] = WithEditing(@, "editing", Editing(@, "editing") \cup {id})]
    /\ supabase' = get_supabase_client(supabase)
    /\ Record("edit", s, [id |-> id], "none", Ok, RosterReads \o RosterReads, None)
    /\ UNCHANGED <<authUsers, employees, observations, now, nextId>>

\* "Salvar" in the inline-edit form
InlineEditSave(s, schools, id, form, fail) ==
    /\ Screen(st[s]) = "employees"
    /\ Listed(id) # {}
    /\ id \in Editing(st[s], "editing")
    /\ form.school \in SchoolNames(schools)
    /\ LET emp == CHOOSE e \in Listed(id) : TRUE
           kw == [name |-> Some(IF Strip(form.name) = "" THEN emp.name
                                ELSE Strip(form.name)),
                  cpf |-> Some(IF StripText(form.cpf) = <<>> THEN emp.cpf
                               ELSE StripText(form.cpf)),
                  school_id |-> Some(SchoolIdOf(schools, form.school)),
                  status |-> Some(form.status), role |-> Some(form.role)]
           m == EmployeeUpdate(kw)
           arg == [id |-> id, kw |-> kw]
       IN  IF m = None
           THEN /\ supabase' = get_supabase_client(supabase)
                /\ Record("edit_save", s, arg, fail, ValidationError, RosterReads, None)
                /\ UNCHANGED <<employees, st>>
           ELSE LET r == update_employee(id, m[1], supabase, employees, fail, now)
                IN  /\ supabase' = r.supabase
                    /\ employees' = r.table
                    /\ st' = IF r.err = Ok
                             THEN [st EXCEPT ![s] = WithEditing(@, "editing", Editing(@, "editing") \ {id})]
                             ELSE st
                    /\ Record("edit_save", s, arg, fail, r.err,
                              RosterReads \o r.calls
                                \o (IF r.err = Ok THEN RosterReads ELSE <<>>), r.ret)
    /\ UNCHANGED <<authUsers, observations, now, nextId>>

InlineEditForms ==
    {[name |-> "Bia", cpf |-> <<>>, school |-> "Escola B", status |-> "Trabalhando",
      role |-> "Encarregado"],
     [name |-> "", cpf |-> CpfPunctuated, school |-> "Escola A", status |-> "Abandono",
      role |-> "Lider"]}

(***************************************************************************)
(* SpecEdit: two UI sessions pressing the buttons of listed employees.     *)
(***************************************************************************)
InitEdit ==
    /\ supabase = None
    /\ authUsers = InitAccounts
    /\ employees = {E1, E2}
    /\ observations = {}
    /\ now = 0
    /\ nextId = FirstFreeId
    /\ st = [s \in {1, 2} |-> InitSession]
    /\ last = [InitLast("init", <<>>) EXCEPT !.pre.st = st]

NextEdit ==
    \/ \E s \in DOMAIN st, email \in {Sup1, Sup2} :
         LoginSubmit(s, email, "secret1", "user", FALSE)
    \/ \E s \in DOMAIN st, id \in {E1.id, E2.id}, fail \in {"none", "table"} :
         ToggleStatus(s, id, fail)
    \/ \E s \in DOMAIN st, id \in {E1.id, E2.id} : EditClick(s, id)
    \/ \E s \in DOMAIN st, id \in {E1.id, E2.id}, form \in InlineEditForms,
          fail \in {"none", "table"} :
         InlineEditSave(s, <<SchoolA, SchoolB>>, id, form, fail)

SpecEdit == InitEdit /\ [][NextEdit]_vars

(***************************************************************************)
(* SpecShared: two UI sessions of one process signing in, logging out and  *)
(* submitting the new-employee form.  Each has its own st.session_state;   *)
(* both use the one client of the module supabase_client.                  *)
(***************************************************************************)
NextShared ==
    \/ \E s \in DOMAIN st, email \in {Sup1, Sup2} :
         LoginSubmit(s, email, "secret1", "user", FALSE)
    \/ \E s \in DOMAIN st : do_logout(s, FALSE)
    \/ \E s \in DOMAIN st, form \in NewEmployeeForms, fail \in {"none", "auth"} :
         RosterCreateSubmit(s, <<SchoolA, SchoolB>>, form, fail)

SpecShared == InitEdit /\ [][NextShared]_vars

(***************************************************************************)
(* Properties.                                                             *)
(***************************************************************************)

\* C1: on EmployeeCreate.cpf and EmployeeUpdate.cpf, a text with exactly 11
\* digit characters (whatever punctuation lies between them) validates to
\* those 11 digits in order, and a text with any other number of digits is
\* rejected with a validation error and no object is built.
C1_CpfNormalizedOrRejected ==
    last.op \in {"EmployeeCreate", "EmployeeUpdate"} =>
        IF Len(DigitsOf(last.arg.cpf)) = CpfDigits
        THEN last.err = Ok /\ last.ret = Some(DigitsOf(last.arg.cpf))
        ELSE last.err = ValidationError /\ last.ret = None

\* the client a call found, and the client now
PreClient == get_supabase_client(last.pre.supabase)[1]
Client == get_supabase_client(supabase)[1]

Anonymous(ss) == ~ss.logged_in /\ ss.user_email = NoneStr /\ ~ss.is_admin

\* C2: for a signed-in supervisor and a valid input, create_employee succeeds
\* and a list_employees right after it returns a record with the input's
\* name, normalized cpf, school_id, role and status, owned by the caller,
\* with an id no earlier row had and fresh timestamps.
C2_CreateListRoundTrip ==
    (/\ last.op = "create_employee"
     /\ last.fail = "none"
     /\ PreClient.user # NoUser
     /\ PreClient.token = PreClient.user
     /\ Len(last.arg.name) >= NameMinLength
     /\ Len(last.arg.name) <= NameMaxLength
     /\ Len(DigitsOf(last.arg.cpf)) = CpfDigits)
    => /\ last.err = Ok
       /\ LET l == list_employees(supabase, employees, "none")
          IN  /\ l.err = Ok
              /\ \E i \in 1..Len(l.rows) :
                   /\ l.rows[i].name = last.arg.name
                   /\ l.rows[i].cpf = DigitsOf(last.arg.cpf)
                   /\ l.rows[i].school_id = last.arg.school_id
                   /\ l.rows[i].status = last.arg.status
                   /\ HasAttr(l.rows[i], "role")
                   /\ l.rows[i].role = last.arg.role
                   /\ l.rows[i].user_email = PreClient.user
                   /\ l.rows[i].user_id = UserId(PreClient.user)
                   /\ l.rows[i].id \notin {r.id : r \in last.pre.employees}
                   /\ l.rows[i].created_at = now
                   /\ l.rows[i].updated_at = now

\* C3: update_employee on an existing row of the caller with only status
\* given changes that row's status and updated_at (to a value not below the
\* old one) and leaves its name, cpf, school_id and role, and every other
\* row, as they were.
C3_StatusOnlyUpdateFrame ==
    (/\ last.op = "update_employee"
     /\ last.fail = "none"
     /\ last.arg.kw = StatusOnlyKw
     /\ \E r \in last.pre.employees :
          r.id = last.arg.id /\ CanModify(PreClient.token, r))
    => /\ last.err = Ok
       /\ Cardinality(employees) = Cardinality(last.pre.employees)
       /\ \A r \in last.pre.employees :
            IF r.id = last.arg.id
            THEN \E q \in employees :
                   /\ q.id = r.id
                   /\ q.status = "Abandono"
                   /\ q.updated_at >= r.updated_at
                   /\ q.name = r.name /\ q.cpf = r.cpf
                   /\ q.school_id = r.school_id /\ q.role = r.role
            ELSE r \in employees

\* C4: an employee update that gives no field is rejected with "Nenhum campo
\* para atualizar." before any backend write, and the table is unchanged.
C4_NoFieldsRejected ==
    (last.op = "update_employee" /\ last.arg.kw = NoFieldsKw)
    => /\ last.err = NoFieldsToUpdate
       /\ last.calls = <<>>
       /\ employees = last.pre.employees

\* C5: delete_employee has no existence check: when the backend answers, the
\* call returns normally; deleting an id that is absent or hidden from the
\* caller, or deleting the same id a second time, leaves the table as it was,
\* and after a delete no row with that id is left for the caller to delete.
C5_DeleteIdempotent ==
    (last.op = "delete_employee" /\ last.fail = "none")
    => /\ last.err = Ok
       /\ last.calls = <<"employees.delete">>
       /\ employees \subseteq last.pre.employees
       /\ ~\E r \in employees : r.id = last.arg.id /\ CanModify(Client.token, r)
       /\ \A r \in last.pre.employees \ employees :
            r.id = last.arg.id /\ CanModify(PreClient.token, r)
       /\ last.again => employees = last.pre.employees

\* a delete of E1 by its owner, called a second time in a row, with the row gone
C5_Witness ==
    /\ last.op = "delete_employee"
    /\ last.again
    /\ last.err = Ok
    /\ last.arg.id = E1.id
    /\ Client.token = Sup1
    /\ E1 \notin employees

\* C6: update_employee and update_observation fail with the not-found error
\* whenever no row is affected (the id is absent, or the row is another
\* user's and hidden by policy), and no stored row is changed.
C6_ZeroRowsIsNotFound ==
    /\ (/\ last.op = "update_employee"
        /\ last.fail = "none"
        /\ last.arg.kw = StatusOnlyKw
        /\ ~\E r \in last.pre.employees :
              r.id = last.arg.id /\ CanModify(PreClient.token, r))
       => (last.err = NotFound /\ employees = last.pre.employees)
    /\ (/\ last.op = "update_observation"
        /\ last.fail = "none"
        /\ ~\E r \in last.pre.observations :
              r.id = last.arg.id /\ CanModify(PreClient.token, r))
       => (last.err = NotFound /\ observations = last.pre.observations)

C8_SignInTransition ==
    last.op = "login" =>
        /\ Anonymous(last.pre.st[last.s])
        /\ IF StripLower(last.arg.email) = "" \/ last.arg.password = ""
           THEN /\ last.calls = <<>>
                /\ st = last.pre.st
                /\ supabase = last.pre.supabase
           ELSE /\ last.calls = <<"auth.sign_in_with_password">>
                /\ IF last.fail = "user"
                   THEN st[last.s] =
                          [logged_in |-> TRUE, user_email |-> last.ret[1],
                           is_admin |-> (last.ret[1] \in ADMIN_EMAILS),
                           current_view |-> "employees"]
                   ELSE st = last.pre.st
        /\ last.fail # "user" => Anonymous(st[last.s])

\* the admin signed in through the login form
C8_Witness ==
    /\ last.op = "login"
    /\ last.fail = "user"
    /\ last.ret = Some(AdminEmail)
    /\ st[last.s].logged_in
    /\ st[last.s].is_admin

\* C9 (as stated): after any sign-up the session is still anonymous and the
\* process-wide client carries no credential of the user the sign-up returned.
C9_SignUpLeavesNoCredential ==
    last.op = "signup" =>
        /\ st = last.pre.st
        /\ Anonymous(st[last.s])
        /\ (last.ret # None /\ last.ret # Some(NoUser)) =>
              (Client.token # last.ret[1] /\ Client.user # last.ret[1])

\* C9 (amended): after any sign-up the session is still anonymous; a sign-up
\* the form refuses leaves the client untouched; a sign-up whose answer
\* carries a session leaves the new user's auth session and token on the
\* process-wide client; any other answer leaves the client's token as it was.
C9_SignUpAttachesReturnedSession ==
    last.op = "signup" =>
        /\ st = last.pre.st
        /\ Anonymous(st[last.s])
        /\ IF last.calls = <<>>
           THEN supabase = last.pre.supabase /\ authUsers = last.pre.authUsers
           ELSE IF last.fail = "session"
           THEN /\ Client.token = StripLower(last.arg.email)
                /\ Client.user = StripLower(last.arg.email)
           ELSE Client.token = PreClient.token

\* a sign-up answered with a session: the session is anonymous, the client is not
C9_Witness ==
    /\ last.op = "signup"
    /\ last.fail = "session"
    /\ Anonymous(st[last.s])
    /\ Client.token = "novo@x.com"
    /\ last.pre.supabase = None

\* C10: after do_logout, whether or not the backend's sign-out raised, the
\* session is logged out with view "employees" and the client is reset to
\* None; sign_out with no client makes no backend call; the first backend
\* access after the reset works on a fresh client with no credential.
C10_LogoutClearsClientSide ==
    /\ last.op = "do_logout" =>
          /\ st[last.s] = InitSession
          /\ supabase = None
          /\ last.calls = IF last.pre.supabase = None THEN <<>> ELSE <<"auth.sign_out">>
    /\ last.op = "sign_out" =>
          /\ supabase = None
          /\ last.pre.supabase = None => last.calls = <<>>
    /\ (last.op = "list_employees" /\ last.pre.supabase = None) =>
          /\ supabase = Some(FreshClient)
          /\ last.fail = "none" => last.ret = Some(<<>>)

\* a logout of the admin during which the backend's sign-out raised
C10_Witness ==
    /\ last.op = "do_logout"
    /\ last.fail = "auth"
    /\ last.pre.st[last.s].is_admin
    /\ last.pre.supabase # None
    /\ supabase = None

\* C15: creating an observation of type COLABORADOR with employee_id = None
\* fails validation and stores nothing; an observation of type ESCOLA given a
\* non-null employee_id is accepted and its stored row has employee_id null.
C15_SubtypeValidatedOnCreate ==
    last.op = "create_observation" =>
        /\ (last.arg.type = "COLABORADOR" /\ last.arg.employee_id = None)
             => (last.err = ValidationError /\ observations = last.pre.observations)
        /\ (last.arg.type = "ESCOLA" /\ last.arg.employee_id # None /\ last.err = Ok)
             => /\ last.ret[1].employee_id = None
                /\ \A r \in observations \ last.pre.observations :
                     r.employee_id = None

\* C18: the admin dashboard is the screen of a session only when it is logged
\* in with is_admin true; is_admin is true only for a logged-in session whose
\* e-mail is in ADMIN_EMAILS; such a session is never shown the roster or the
\* observation screen; a session of any other e-mail is never shown the
\* dashboard, whatever it signs in as, navigates to or logs out of.
C18_AdminGating ==
    \A s \in DOMAIN st :
        /\ Screen(st[s]) = "admin" => (st[s].logged_in /\ st[s].is_admin)
        /\ st[s].is_admin => (st[s].logged_in /\ st[s].user_email \in ADMIN_EMAILS)
        /\ st[s].is_admin => Screen(st[s]) \notin {"employees", "observations"}
        /\ st[s].user_email \notin ADMIN_EMAILS => Screen(st[s]) # "admin"

\* the admin routed to the dashboard by the login that has just succeeded
C18_Witness ==
    /\ Screen(st[1]) = "admin"
    /\ st[1].user_email = AdminEmail
    /\ last.op = "login"
    /\ last.pre.st[1].current_view = "employees"

\* C14: whatever observations are created and edited through the observation
\* screen, every stored observation of type COLABORADOR has an employee_id
\* and a school_id, and every stored observation of type ESCOLA has no
\* employee_id and has a school_id.
C14_SubtypeInvariantThroughScreen ==
    \A o \in observations :
        /\ o.type = "COLABORADOR" => (o.employee_id # None /\ o.school_id # None)
        /\ o.type = "ESCOLA" => (o.employee_id = None /\ o.school_id # None)

\* an observation about a school, created through the form and edited since
C14_Witness ==
    /\ last.op = "obs_save"
    /\ last.err = Ok
    /\ \E o \in observations :
         o.type = "ESCOLA" /\ o.id = last.arg.id /\ o.text = "t1"
           /\ o.updated_at >= o.created_at

\* the runs of the roster screen and what the last one ended with
RosterOps == {"roster", "roster_create", "roster_filter"}

LastView == last.ret[1]

\* C11: a roster run over a non-empty filtered set of n records shows page p
\* of ceil(n / 10): exactly the records at positions 10(p-1)+1 .. min(10p, n)
\* of the filtered set, with "previous" disabled iff p = 1 and "next"
\* disabled iff p is the last page (n = 23, p = 3: 3 records, next disabled).
C11_PageOfFilteredSetShown ==
    (/\ last.op \in RosterOps
     /\ LastView.filtered # None
     /\ LastView.filtered # Some(<<>>))
    => /\ LastView.shown # None
       /\ LET f == LastView.filtered[1]
              n == Len(f)
              sh == LastView.shown[1]
              p == sh.page
              upto == IF PageSize * p < n THEN PageSize * p ELSE n
          IN  /\ sh.total_paginas * PageSize >= n
              /\ (sh.total_paginas - 1) * PageSize < n
              /\ p \in 1..sh.total_paginas
              /\ p = st[last.s].emp_page
              /\ sh.rows = [i \in 1..(upto - PageSize * (p - 1)) |->
                              f[PageSize * (p - 1) + i]]
              /\ sh.prev_disabled <=> (p = 1)
              /\ sh.next_disabled <=> (p = sh.total_paginas)
              /\ (n = 23 /\ p = 3) => (Len(sh.rows) = 3 /\ sh.next_disabled)

\* C12: the filtered set of a roster run is exactly the fetched employees
\* that satisfy every active filter at once (name: case-insensitive
\* substring; cpf: substring of the digits; school: equality), in fetched
\* order; an empty name or cpf filter and school "Todas" constrain nothing.
C12_FilterIsConjunction ==
    (last.op \in RosterOps /\ LastView.filtered # None)
    => LET fl == st[last.s].filters
           schools == last.arg.schools
           fetched == list_employees(supabase, employees, "none").rows
           Match(e) ==
               /\ fl.name = <<>> \/ Contains(LowerText(fl.name), LowerText(Chars(e.name)))
               /\ fl.cpf = <<>> \/ Contains(DigitsOf(fl.cpf), DigitsOf(e.cpf))
               /\ fl.school = "Todas"
                    \/ \E k \in 1..Len(schools) :
                         schools[k].name = fl.school /\ schools[k].id = e.school_id
       IN  LastView.filtered = Some(SelectSeq(fetched, Match))

\* over [Beatriz/school 2, Ana/school 1], the name filter "AN" with the school
\* filter "Escola B" leaves nothing
C12_Witness ==
    /\ last.op = "roster_filter"
    /\ st[last.s].filters = [name |-> <<"A", "N">>, cpf |-> <<>>, school |-> "Escola B"]
    /\ Len(list_employees(supabase, employees, "none").rows) = 2
    /\ LastView.filtered = Some(<<>>)
    /\ LastView.outcome = "Nenhum funcionario encontrado com os filtros aplicados."

C16_NoExceptionEscapesRoster ==
    last.op \in RosterOps =>
        /\ LastView.outcome \notin {KeyError, AttributeError}
        /\ Cardinality({i \in DOMAIN last.calls : last.calls[i] = "employees.insert"}) <= 1
        /\ st[last.s].logged_in = last.pre.st[last.s].logged_in
        /\ st[last.s].user_email = last.pre.st[last.s].user_email
        /\ st[last.s].is_admin = last.pre.st[last.s].is_admin

PressedOwnRow ==
    \E r \in last.pre.employees : r.id = last.arg.id /\ CanModify(PreClient.token, r)

\* C17: pressing the status toggle on an employee the caller owns sets the
\* stored status to the other of the two values, relative to the status
\* stored just before, and changes nothing else but updated_at (so a second
\* press restores the status).
C17_ToggleFlipsStatus ==
    (last.op = "toggle" /\ last.fail = "none" /\ PressedOwnRow)
    => /\ last.err = Ok
       /\ \A r \in last.pre.employees :
            IF r.id = last.arg.id
            THEN \E q \in employees :
                   /\ q.status = OtherStatus(r.status)
                   /\ [q EXCEPT !.status = r.status, !.updated_at = r.updated_at] = r
            ELSE r \in employees

\* C20: an update submitted from a rendered row (toggle or inline-edit save)
\* is never rejected, whatever was written to the row in between, and
\* afterwards the row holds the submitted value in every field the update
\* carries.
C20_LastWriteWins ==
    (/\ last.op \in {"toggle", "edit_save"}
     /\ last.fail = "none"
     /\ last.err # ValidationError
     /\ PressedOwnRow)
    => /\ last.err = Ok
       /\ \E q \in employees :
            /\ q.id = last.arg.id
            /\ IF last.op = "toggle"
               THEN q.status = OtherStatus(last.arg.status)
               ELSE /\ q.name = last.arg.kw.name[1]
                    /\ q.school_id = last.arg.kw.school_id[1]
                    /\ q.status = last.arg.kw.status[1]
                    /\ q.role = last.arg.kw.role[1]

\* C21: with two UI sessions on the one process-wide client, a create
\* submitted with a valid form by a session logged in as e, with no backend
\* failure, either stores a row owned by e or fails; it stores no row of
\* another owner, and it does not fail as unauthenticated whatever the other
\* session did before (a logout included).
C21_CreateOwnedByCallerOrFails ==
    (/\ last.op = "roster_create"
     /\ last.fail = "none"
     /\ last.err \notin {"formulario nao enviado", "campos obrigatorios", ValidationError})
    => /\ last.pre.st[last.s].logged_in
       /\ last.err # NotAuthenticated
       /\ \A r \in employees \ last.pre.employees :
            r.user_email = last.pre.st[last.s].user_email

\* the fields of st.session_state that a sign-in and do_logout assign
AuthFields == {"logged_in", "user_email", "is_admin", "current_view"}

====
